---- MODULE Spec2Model ----
(***************************************************************************)
(* Model of the graph data model (api/models/graph.py, node.py, edge.py)   *)
(* and of the plugin registry (project_platform/plugin_manager.py).        *)
(*                                                                         *)
(* Python objects live in a heap: a Node or an Edge is an address into     *)
(* `heap`, so that two dictionaries holding the same object are seen to    *)
(* hold the same address.  A Python dict is an insertion-ordered sequence  *)
(* of [k, v] entries with distinct keys.                                   *)
(***************************************************************************)
EXTENDS Integers, Sequences, FiniteSets, TLC

\* ------------------------------------------------------------------ bounds
MaxObjs == 3        \* Node/Edge objects ever constructed
MaxGraphs == 2      \* Graph objects ever constructed
MaxScans == 3       \* runs of the directory scan the spy counts
NThreads == 2       \* threads calling get_data_source_plugins at once
MaxJsonNodes == 2    \* node entries of a JSON document
MaxJsonEdges == 1    \* edge entries of a JSON document
MaxInputNodes == 1  \* add_node calls that made the Graph handed to get_node

\* ------------------------------------------------------------ input values
NodeIds == {"n1", "n2"}
EdgeIds == {"e1", "e2"}
AttrVals == {"A", "B"}
NodeProps == {[name |-> "A"], [name |-> "B"]}
EdgeProps == {[type |-> "LINK"]}

VARIABLES
    heap,       \* every Node / Edge object constructed so far, by address
    graphs,     \* every Graph object that was returned to a caller
    builder,    \* the GraphBuilder: _directed, _nodes, _edges
    result,     \* outcome of the last call: op, ok, err, g (graph index)
    staged      \* history: what the last add_node / add_edge of the builder passed per id

gvars == <<heap, graphs, builder, result, staged>>

VARIABLES
    plugins_dir_exists, \* does <project_root>/plugins exist
    dir_entries,        \* plugins_dir.iterdir(), in the order the OS returns
    raises,             \* the modules whose import raises an Exception
    instance,           \* PluginManager._instance and the object's attributes
    scans,              \* spy: how often _load_plugins went past its _loaded guard
    seen,               \* the registries' key sets as the last query left them
    ret,                \* the last call and its return value
    pc,                 \* per thread: where it is inside get_data_source_plugins
    folder_idx          \* per thread: the loop index over plugin_folders

fsvars == <<plugins_dir_exists, dir_entries, raises>>
tvars == <<pc, folder_idx>>
rvars == <<plugins_dir_exists, dir_entries, raises, instance, scans, seen, ret, pc, folder_idx>>
vars == <<heap, graphs, builder, result, staged, plugins_dir_exists, dir_entries, raises,
          instance, scans, seen, ret, pc, folder_idx>>

\* ------------------------------------------------------------ Python values
None == "None"

\* ------------------------------------------------------------ Python dict
EmptyDict == <<>>

DictKeys(d) == {d[i].k : i \in DOMAIN d}

DictValues(d) == [i \in DOMAIN d |-> d[i].v]

DictGet(d, key) == d[CHOOSE i \in DOMAIN d : d[i].k = key].v

\* d.setdefault(key, val) : an existing key keeps its value
DictSet_keep_first(d, key, val) ==
    IF key \in DictKeys(d) THEN d ELSE Append(d, [k |-> key, v |-> val])

\* d[key] = val : an existing key keeps its position, a new key goes last
DictSet(d, key, val) ==
    IF key \in DictKeys(d)
    THEN [i \in DOMAIN d |-> IF d[i].k = key THEN [k |-> key, v |-> val] ELSE d[i]]
    ELSE Append(d, [k |-> key, v |-> val])

\* ------------------------------------------------------------ Node, Edge
Node(node_id, attributes) ==
    [kind |-> "Node", id |-> node_id, attributes |-> attributes]

Edge(edge_id, source_id, target_id, attributes) ==
    [kind |-> "Edge", id |-> edge_id, source |-> source_id,
     target |-> target_id, attributes |-> attributes]

\* ------------------------------------------------------------ errors
NoError == [type |-> "None", msg |-> <<>>]

SourceMissing ==
    [type |-> "ValueError", msg |-> <<"Source", "node", "does", "not", "exist.">>]

TargetMissing ==
    [type |-> "ValueError", msg |-> <<"Target", "node", "does", "not", "exist.">>]

\* ------------------------------------------------------------ Graph
Graph(directed) == [directed |-> directed, nodes |-> EmptyDict, edges |-> EmptyDict]

Graph_add_node(g, h, a) == [g EXCEPT !.nodes = DictSet(g.nodes, h[a].id, a)]

\* None where a Node object is expected: no object lives at this address
NullAddr == 0

\* self.nodes.get(node_id)
Graph_get_node(g, node_id) ==
    IF node_id \in DictKeys(g.nodes) THEN DictGet(g.nodes, node_id) ELSE NullAddr

\* an add_edge that forgets to look for the target
Graph_add_edge_source_only(g, h, a) ==
    IF h[a].source \notin DictKeys(g.nodes)
    THEN [err |-> SourceMissing, g |-> g]
    ELSE [err |-> NoError, g |-> [g EXCEPT !.edges = DictSet(g.edges, h[a].id, a)]]

\* an add_edge that forgets to look for the source
Graph_add_edge_target_only(g, h, a) ==
    IF h[a].target \notin DictKeys(g.nodes)
    THEN [err |-> TargetMissing, g |-> g]
    ELSE [err |-> NoError, g |-> [g EXCEPT !.edges = DictSet(g.edges, h[a].id, a)]]

\* the outcome of add_edge: the raised error (or NoError) and the graph after
Graph_add_edge(g, h, a) ==
    IF h[a].source \notin DictKeys(g.nodes)
    THEN [err |-> SourceMissing, g |-> g]
    ELSE IF h[a].target \notin DictKeys(g.nodes)
    THEN [err |-> TargetMissing, g |-> g]
    ELSE [err |-> NoError, g |-> [g EXCEPT !.edges = DictSet(g.edges, h[a].id, a)]]

\* ------------------------------------------------------------ GraphBuilder
GraphBuilder(directed) ==
    [directed |-> directed, nodes |-> EmptyDict, edges |-> EmptyDict]

GraphBuilder_add_node(b, a, node_id) == [b EXCEPT !.nodes = DictSet(b.nodes, node_id, a)]

GraphBuilder_add_edge(b, a, edge_id) == [b EXCEPT !.edges = DictSet(b.edges, edge_id, a)]

\* for node in self._nodes.values(): graph.add_node(node)
RECURSIVE AddNodes(_, _, _, _)
AddNodes(g, h, vals, i) ==
    IF i > Len(vals) THEN g
    ELSE AddNodes(Graph_add_node(g, h, vals[i]), h, vals, i + 1)

\* for edge in self._edges.values(): graph.add_edge(edge) ; the first raise ends the loop
RECURSIVE AddEdges(_, _, _, _)
AddEdges(g, h, vals, i) ==
    IF i > Len(vals) THEN [err |-> NoError, g |-> g]
    ELSE LET r == Graph_add_edge(g, h, vals[i])
         IN  IF r.err # NoError THEN r
             ELSE AddEdges(r.g, h, vals, i + 1)

\* a build that replays the edges before the nodes
build_edges_first(b, h) ==
    LET r == AddEdges(Graph(b.directed), h, DictValues(b.edges), 1)
    IN  IF r.err # NoError THEN [err |-> r.err, g |-> r.g, b |-> b]
        ELSE [err |-> NoError, g |-> AddNodes(r.g, h, DictValues(b.nodes), 1), b |-> b]

\* a build that empties the staging dictionaries once it is done
build_clearing(b, h) ==
    LET graph == AddNodes(Graph(b.directed), h, DictValues(b.nodes), 1)
        r == AddEdges(graph, h, DictValues(b.edges), 1)
    IN  [err |-> r.err, g |-> r.g, b |-> GraphBuilder(b.directed)]

\* a build that throws the staged edges away when one of them is rejected
build_discarding(b, h) ==
    LET graph == AddNodes(Graph(b.directed), h, DictValues(b.nodes), 1)
        r == AddEdges(graph, h, DictValues(b.edges), 1)
    IN  [err |-> r.err, g |-> r.g,
         b |-> IF r.err = NoError THEN b ELSE [b EXCEPT !.edges = EmptyDict]]

\* the outcome of build(): the raised error (or NoError), the Graph, and self after
build(b, h) ==
    LET graph == AddNodes(Graph(b.directed), h, DictValues(b.nodes), 1)
        r == AddEdges(graph, h, DictValues(b.edges), 1)
    IN  [err |-> r.err, g |-> r.g, b |-> b]

\* ------------------------------------------------------------ call history
NothingStaged == [nodes |-> [id \in {} |-> None], edges |-> [id \in {} |-> None]]

\* f with key bound to val
Bind(f, key, val) == [k \in DOMAIN f \cup {key} |-> IF k = key THEN val ELSE f[k]]

\* ------------------------------------------------------------ initial state
\* a process that never touches the PluginManager
RegistryOff ==
    /\ plugins_dir_exists = FALSE
    /\ dir_entries = <<>>
    /\ raises = {}
    /\ instance = [created |-> FALSE, initialized |-> FALSE, loaded |-> FALSE,
                  data_plugins |-> <<>>, visualizer_plugins |-> <<>>]
    /\ scans = 0
    /\ seen = [queried |-> FALSE, data_keys |-> {}, vis_keys |-> {}]
    /\ ret = [op |-> "none", args |-> <<>>, value |-> "None", raised |-> "None"]
    /\ pc = <<>>
    /\ folder_idx = <<>>

GraphInit ==
    /\ heap = <<>>
    /\ graphs = <<>>
    /\ \E d \in BOOLEAN : builder = GraphBuilder(d)
    /\ result = [op |-> "none", ok |-> TRUE, err |-> NoError, g |-> 0]
    /\ staged = NothingStaged

GraphOnlyInit == GraphInit /\ RegistryOff

\* ------------------------------------------------------------ calls
\* no PluginManager call is made
RegistryIdle == UNCHANGED rvars

\* g = Graph(directed)
NewGraph ==
    /\ Len(graphs) < MaxGraphs
    /\ \E d \in BOOLEAN :
         /\ graphs' = Append(graphs, Graph(d))
         /\ result' = [op |-> "Graph", ok |-> TRUE, err |-> NoError, g |-> Len(graphs) + 1]
    /\ UNCHANGED <<heap, builder, staged>>
    /\ RegistryIdle

\* g.add_node(Node(node_id, attributes))
GraphAddNode ==
    /\ Len(heap) < MaxObjs
    /\ \E gi \in DOMAIN graphs, node_id \in NodeIds, attributes \in NodeProps :
         LET h == Append(heap, Node(node_id, attributes))
         IN  /\ heap' = h
             /\ graphs' = [graphs EXCEPT ![gi] = Graph_add_node(graphs[gi], h, Len(h))]
             /\ result' = [op |-> "Graph.add_node", ok |-> TRUE, err |-> NoError, g |-> gi]
    /\ UNCHANGED <<builder, staged>>
    /\ RegistryIdle

\* g.add_edge(Edge(edge_id, source_id, target_id, attributes))
GraphAddEdge ==
    /\ Len(heap) < MaxObjs
    /\ \E gi \in DOMAIN graphs, edge_id \in EdgeIds, source_id \in NodeIds,
          target_id \in NodeIds, attributes \in EdgeProps :
         LET h == Append(heap, Edge(edge_id, source_id, target_id, attributes))
             r == Graph_add_edge(graphs[gi], h, Len(h))
         IN  /\ heap' = h
             /\ graphs' = [graphs EXCEPT ![gi] = r.g]
             /\ result' = [op |-> "Graph.add_edge", ok |-> r.err = NoError,
                           err |-> r.err, g |-> gi]
    /\ UNCHANGED <<builder, staged>>
    /\ RegistryIdle

\* builder.add_node(node_id, **properties)
BuilderAddNode ==
    /\ Len(heap) < MaxObjs
    /\ \E node_id \in NodeIds, properties \in NodeProps :
         LET h == Append(heap, Node(node_id, properties))
         IN  /\ heap' = h
             /\ builder' = GraphBuilder_add_node(builder, Len(h), node_id)
             /\ staged' = [staged EXCEPT !.nodes = Bind(@, node_id, [attributes |-> properties])]
    /\ result' = [op |-> "GraphBuilder.add_node", ok |-> TRUE, err |-> NoError, g |-> 0]
    /\ UNCHANGED graphs
    /\ RegistryIdle

\* builder.add_edge(edge_id, source_id, target_id, **properties)
BuilderAddEdge ==
    /\ Len(heap) < MaxObjs
    /\ \E edge_id \in EdgeIds, source_id \in NodeIds, target_id \in NodeIds,
          properties \in EdgeProps :
         LET h == Append(heap, Edge(edge_id, source_id, target_id, properties))
         IN  /\ heap' = h
             /\ builder' = GraphBuilder_add_edge(builder, Len(h), edge_id)
             /\ staged' = [staged EXCEPT !.edges =
                              Bind(@, edge_id, [source |-> source_id, target |-> target_id,
                                                attributes |-> properties])]
    /\ result' = [op |-> "GraphBuilder.add_edge", ok |-> TRUE, err |-> NoError, g |-> 0]
    /\ UNCHANGED graphs
    /\ RegistryIdle

\* g = builder.build() : the Graph reaches the caller only when nothing was raised
Build ==
    /\ RegistryIdle
    /\ UNCHANGED staged
    /\ LET r == build(builder, heap)
       IN  IF r.err = NoError
           THEN /\ Len(graphs) < MaxGraphs
                /\ graphs' = Append(graphs, r.g)
                /\ result' = [op |-> "GraphBuilder.build", ok |-> TRUE, err |-> NoError,
                              g |-> Len(graphs) + 1]
                /\ builder' = r.b
                /\ UNCHANGED heap
           ELSE /\ result' = [op |-> "GraphBuilder.build", ok |-> FALSE, err |-> r.err, g |-> 0]
                /\ builder' = r.b
                /\ UNCHANGED <<heap, graphs>>

\* g.nodes[id].attributes["name"] = v   or   g.edges[id].attributes["type"] = v
SetAttribute ==
    /\ \E gi \in DOMAIN graphs, v \in AttrVals :
         \/ \E key \in DictKeys(graphs[gi].nodes) :
              heap' = [heap EXCEPT ![DictGet(graphs[gi].nodes, key)].attributes.name = v]
         \/ \E key \in DictKeys(graphs[gi].edges) :
              heap' = [heap EXCEPT ![DictGet(graphs[gi].edges, key)].attributes.type = v]
    /\ result' = [op |-> "setattr", ok |-> TRUE, err |-> NoError, g |-> 0]
    /\ UNCHANGED <<graphs, builder, staged>>
    /\ RegistryIdle

\* callers that construct Graph objects themselves
GraphNext ==
    \/ NewGraph
    \/ GraphAddNode
    \/ GraphAddEdge
    \/ SetAttribute

SpecGraph == GraphOnlyInit /\ [][GraphNext]_vars

\* callers that fill a Graph and a builder side by side
IdsNext ==
    \/ NewGraph
    \/ GraphAddNode
    \/ GraphAddEdge
    \/ BuilderAddNode
    \/ BuilderAddEdge

SpecIds == GraphOnlyInit /\ [][IdsNext]_vars

\* callers that obtain Graph objects from the builder
BuilderNext ==
    \/ BuilderAddNode
    \/ BuilderAddEdge
    \/ Build
    \/ SetAttribute

SpecBuilder == GraphOnlyInit /\ [][BuilderNext]_vars

\* ================================================================ JSONSource
\* ------------------------------------------------- documents
\* the keys an entry may carry and the values each may have
NodeEntryValues == ("id" :> NodeIds @@ "name" :> AttrVals @@ "node_id" :> {"x"})

EdgeEntryValues ==
    ("id" :> {"e1"} @@ "source" :> {"n1"} @@ "target" :> NodeIds @@
     "type" :> {"LINK"} @@ "source_id" :> {"x"})

\* the JSON objects over any of the keys of vals
JsonObjects(vals) ==
    UNION {{f \in [D -> UNION {vals[k] : k \in D}] : \A k \in D : f[k] \in vals[k]} :
              D \in SUBSET DOMAIN vals}

\* edge entries name their source: an entry without one adds nothing to one without an id
EdgeEntries == {e \in JsonObjects(EdgeEntryValues) : {"source", "target"} \subseteq DOMAIN e}

JsonDocuments ==
    [nodes : UNION {[1..n -> JsonObjects(NodeEntryValues)] : n \in 0..MaxJsonNodes},
     edges : UNION {[1..n -> EdgeEntries] : n \in 0..MaxJsonEdges}]

\* ------------------------------------------------- _build_from_dict
MissingNodeId ==
    [type |-> "ValueError", msg |-> <<"Each", "node", "must", "have", "an", "'id'", "field">>]

MissingEdgeField ==
    [type |-> "ValueError",
     msg |-> <<"Each", "edge", "must", "have", "'id',", "'source',", "and", "'target'", "fields">>]

\* a call f(a, **kw) in which kw names a parameter that a already fills
MultipleValues(name) ==
    [type |-> "TypeError", msg |-> <<"got", "multiple", "values", "for", "argument", name>>]

\* the named parameters of GraphBuilder.add_node and GraphBuilder.add_edge
AddNodeParams == {"self", "node_id"}
AddEdgeParams == {"self", "edge_id", "source_id", "target_id"}

\* d.get(key)
JsonGet(d, key) == IF key \in DOMAIN d THEN d[key] ELSE None

\* {k: v for k, v in d.items() if k not in keys}
Without(d, keys) == [k \in DOMAIN d \ keys |-> d[k]]

\* the loop over data['nodes']: the error raised (or NoError), the builder and the heap
RECURSIVE JsonAddNodes(_, _, _, _)
JsonAddNodes(b, h, nodes, i) ==
    IF i > Len(nodes) THEN [err |-> NoError, b |-> b, h |-> h]
    ELSE LET node_data == nodes[i]
             node_id == JsonGet(node_data, "id")
             properties == Without(node_data, {"id"})
         IN  IF node_id = None THEN [err |-> MissingNodeId, b |-> b, h |-> h]
             ELSE IF DOMAIN properties \cap AddNodeParams # {}
             THEN [err |-> MultipleValues(CHOOSE k \in DOMAIN properties \cap AddNodeParams : TRUE),
                   b |-> b, h |-> h]
             ELSE LET hh == Append(h, Node(node_id, properties))
                  IN  JsonAddNodes(GraphBuilder_add_node(b, Len(hh), node_id), hh, nodes, i + 1)

\* the loop over data['edges']
RECURSIVE JsonAddEdges(_, _, _, _)
JsonAddEdges(b, h, edges, i) ==
    IF i > Len(edges) THEN [err |-> NoError, b |-> b, h |-> h]
    ELSE LET edge_data == edges[i]
             edge_id == JsonGet(edge_data, "id")
             source == JsonGet(edge_data, "source")
             target == JsonGet(edge_data, "target")
             properties == Without(edge_data, {"id", "source", "target"})
         IN  IF None \in {edge_id, source, target}
             THEN [err |-> MissingEdgeField, b |-> b, h |-> h]
             ELSE IF DOMAIN properties \cap AddEdgeParams # {}
             THEN [err |-> MultipleValues(CHOOSE k \in DOMAIN properties \cap AddEdgeParams : TRUE),
                   b |-> b, h |-> h]
             ELSE LET hh == Append(h, Edge(edge_id, source, target, properties))
                  IN  JsonAddEdges(GraphBuilder_add_edge(b, Len(hh), edge_id), hh, edges, i + 1)

\* _build_from_dict(data, directed): the error raised (or NoError), the Graph
\* returned and the heap with the objects the call constructed
build_from_dict(data, directed, h) ==
    LET n == JsonAddNodes(GraphBuilder(directed), h, data.nodes, 1)
    IN  IF n.err # NoError THEN [err |-> n.err, g |-> Graph(directed), h |-> h]
        ELSE LET e == JsonAddEdges(n.b, n.h, data.edges, 1)
             IN  IF e.err # NoError THEN [err |-> e.err, g |-> Graph(directed), h |-> h]
                 ELSE LET r == build(e.b, e.h)
                      IN  [err |-> r.err, g |-> r.g, h |-> e.h]

\* g = JSONSource(GraphBuilder)._build_from_dict(data, directed), the one
\* document the process reads
BuildFromDict ==
    /\ result.op = "none"
    /\ \E data \in JsonDocuments, directed \in BOOLEAN :
         LET r == build_from_dict(data, directed, heap)
         IN  IF r.err = NoError
             THEN /\ heap' = r.h
                  /\ graphs' = <<r.g>>
                  /\ result' = [op |-> "JSONSource._build_from_dict", ok |-> TRUE,
                                err |-> NoError, g |-> 1, data |-> data, directed |-> directed]
             ELSE /\ result' = [op |-> "JSONSource._build_from_dict", ok |-> FALSE,
                                err |-> r.err, g |-> 0, data |-> data, directed |-> directed]
                  /\ UNCHANGED <<heap, graphs>>
    /\ UNCHANGED <<builder, staged>>
    /\ RegistryIdle

JsonNext == BuildFromDict

SpecJson == GraphOnlyInit /\ [][JsonNext]_vars

\* ================================================================ registry
\* ------------------------------------------------- what is on the disk
\* the entries of the plugins directory and what each of them is
EntryInfo ==
    ( "alpha"     :> [is_dir |-> TRUE,  has_init |-> TRUE]  @@
      "beta"      :> [is_dir |-> TRUE,  has_init |-> TRUE]  @@
      "notes"     :> [is_dir |-> TRUE,  has_init |-> FALSE] @@
      "README.md" :> [is_dir |-> FALSE, has_init |-> FALSE] )

Entries == DOMAIN EntryInfo

\* pkgutil.iter_modules(package.__path__) : (module_name, is_pkg), sorted by name
IterModules ==
    ( "alpha"     :> << [module_name |-> "mod", is_pkg |-> FALSE],
                        [module_name |-> "sub", is_pkg |-> TRUE] >> @@
      "alpha.sub" :> << [module_name |-> "leaf", is_pkg |-> FALSE] >> @@
      "beta"      :> << [module_name |-> "mod", is_pkg |-> FALSE] >> )

ModuleNames == {"alpha", "alpha.mod", "alpha.sub", "alpha.sub.leaf", "beta", "beta.mod"}

PackageNames == DOMAIN IterModules

\* importing a module imports its parent package first; beta/__init__.py
\* itself does `from .mod import SimpleVisualizer`
ImportsFirst ==
    { <<"alpha.mod", "alpha">>, <<"alpha.sub", "alpha">>,
      <<"alpha.sub.leaf", "alpha.sub">>, <<"beta.mod", "beta">>, <<"beta", "beta.mod">> }

\* the objects module attributes are bound to: what inspect.isclass, issubclass,
\* inspect.isabstract, __name__, __module__ and the constructor do on them
Classes ==
    ( "DataSourcePlugin" :> [isclass |-> TRUE, check |-> "ok", isabstract |-> TRUE,
                             mro |-> {"DataSourcePlugin"}, module |-> "api.data_source",
                             init_args |-> {}] @@
      "VisualizerPlugin" :> [isclass |-> TRUE, check |-> "ok", isabstract |-> TRUE,
                             mro |-> {"VisualizerPlugin"}, module |-> "api.visualizer",
                             init_args |-> {}] @@
      "JSONSource"       :> [isclass |-> TRUE, check |-> "ok", isabstract |-> FALSE,
                             mro |-> {"JSONSource", "DataSourcePlugin"}, module |-> "alpha.mod",
                             init_args |-> {"graph_builder_class"}] @@
      "Both"             :> [isclass |-> TRUE, check |-> "ok", isabstract |-> FALSE,
                             mro |-> {"Both", "DataSourcePlugin", "VisualizerPlugin"},
                             module |-> "alpha.mod", init_args |-> {}] @@
      "AbstractSource"   :> [isclass |-> TRUE, check |-> "ok", isabstract |-> TRUE,
                             mro |-> {"AbstractSource", "DataSourcePlugin"},
                             module |-> "alpha.mod", init_args |-> {}] @@
      "IntList"          :> [isclass |-> TRUE, check |-> "TypeError", isabstract |-> FALSE,
                             mro |-> {}, module |-> "builtins", init_args |-> {}] @@
      "json"             :> [isclass |-> FALSE, check |-> "ok", isabstract |-> FALSE,
                             mro |-> {}, module |-> "json", init_args |-> {}] @@
      "AlphaSource"      :> [isclass |-> TRUE, check |-> "ok", isabstract |-> FALSE,
                             mro |-> {"AlphaSource", "DataSourcePlugin"}, module |-> "alpha",
                             init_args |-> {}] @@
      "LeafVis"          :> [isclass |-> TRUE, check |-> "ok", isabstract |-> FALSE,
                             mro |-> {"LeafVis", "VisualizerPlugin"}, module |-> "alpha.sub.leaf",
                             init_args |-> {}] @@
      "LibSource"        :> [isclass |-> TRUE, check |-> "ok", isabstract |-> FALSE,
                             mro |-> {"LibSource", "DataSourcePlugin"}, module |-> "lib.sources",
                             init_args |-> {}] @@
      "SimpleVisualizer" :> [isclass |-> TRUE, check |-> "ok", isabstract |-> FALSE,
                             mro |-> {"SimpleVisualizer", "VisualizerPlugin"},
                             module |-> "beta.mod", init_args |-> {}] @@
      "Helper"           :> [isclass |-> TRUE, check |-> "ok", isabstract |-> FALSE,
                             mro |-> {"Helper"}, module |-> "beta.mod", init_args |-> {}] )

\* inspect.getmembers(module) : (name, obj), sorted by name
Member(name) == [name |-> name, obj |-> name]

GetMembers ==
    ( "alpha"          :> << Member("AlphaSource"), Member("DataSourcePlugin") >> @@
      "alpha.mod"      :> << Member("AbstractSource"), Member("Both"),
                             Member("DataSourcePlugin"), Member("IntList"),
                             Member("JSONSource"), Member("VisualizerPlugin"),
                             Member("json") >> @@
      "alpha.sub"      :> << >> @@
      "alpha.sub.leaf" :> << Member("LeafVis"), Member("LibSource"),
                             Member("VisualizerPlugin") >> @@
      "beta"           :> << Member("SimpleVisualizer") >> @@
      "beta.mod"       :> << Member("Helper"), Member("SimpleVisualizer"),
                             Member("VisualizerPlugin") >> )

\* ------------------------------------------------- PluginManager

\* cls._instance is None : `created` is false and the other fields mean nothing
NoInstance ==
    [created |-> FALSE, initialized |-> FALSE, loaded |-> FALSE,
     data_plugins |-> EmptyDict, visualizer_plugins |-> EmptyDict]

\* __new__ : the object has no attribute yet, _initialized is the class's False
PluginManager_new(inst) ==
    IF ~inst.created THEN [NoInstance EXCEPT !.created = TRUE] ELSE inst

\* an __init__ without the _initialized guard
PluginManager_init_unguarded(self) ==
    [created |-> TRUE, initialized |-> TRUE, loaded |-> FALSE,
     data_plugins |-> EmptyDict, visualizer_plugins |-> EmptyDict]

PluginManager_init(self) ==
    IF self.initialized THEN self
    ELSE [created |-> TRUE, initialized |-> TRUE, loaded |-> FALSE,
          data_plugins |-> EmptyDict, visualizer_plugins |-> EmptyDict]

\* the first condition of _scan_module reduced to issubclass(obj, DataSourcePlugin)
IsDataSource_any_subclass(obj) ==
    "DataSourcePlugin" \in Classes[obj].mro

IsDataSource(obj) ==
    /\ "DataSourcePlugin" \in Classes[obj].mro
    /\ obj # "DataSourcePlugin"
    /\ ~Classes[obj].isabstract

IsVisualizer(obj) ==
    /\ "VisualizerPlugin" \in Classes[obj].mro
    /\ obj # "VisualizerPlugin"
    /\ ~Classes[obj].isabstract

\* one round of the loop of _scan_module, with `elif` in place of the second `if`
scan_member_elif(self, module_name, m) ==
    IF ~Classes[m.obj].isclass THEN self
    ELSE IF Classes[m.obj].check # "ok" THEN self
    ELSE LET plugin_key == module_name \o "." \o m.name
         IN  IF IsDataSource(m.obj)
             THEN [self EXCEPT !.data_plugins = DictSet(@, plugin_key, m.obj)]
             ELSE IF IsVisualizer(m.obj)
             THEN [self EXCEPT !.visualizer_plugins = DictSet(@, plugin_key, m.obj)]
             ELSE self

\* one round of the loop of _scan_module
scan_member(self, module_name, m) ==
    IF ~Classes[m.obj].isclass THEN self
    ELSE IF Classes[m.obj].check # "ok" THEN self
    ELSE LET plugin_key == module_name \o "." \o m.name
             s1 == IF IsDataSource(m.obj)
                   THEN [self EXCEPT !.data_plugins = DictSet(@, plugin_key, m.obj)]
                   ELSE self
         IN  IF IsVisualizer(m.obj)
             THEN [s1 EXCEPT !.visualizer_plugins = DictSet(@, plugin_key, m.obj)]
             ELSE s1

RECURSIVE ScanMembers(_, _, _, _)
ScanMembers(self, module_name, members, i) ==
    IF i > Len(members) THEN self
    ELSE ScanMembers(scan_member(self, module_name, members[i]), module_name, members, i + 1)

scan_module(self, module_name) ==
    ScanMembers(self, module_name, GetMembers[module_name], 1)

\* a _scan_package whose try/except is around the loop: the first import
\* that raises ends the scan of the package
RECURSIVE ScanPackageFrom_until_error(_, _, _, _)
ScanPackageFrom_until_error(self, package_name, R, i) ==
    LET mods == IterModules[package_name]
    IN  IF i > Len(mods) THEN self
        ELSE LET full_name == package_name \o "." \o mods[i].module_name
             IN  IF full_name \in R THEN self
                 ELSE ScanPackageFrom_until_error(
                          IF mods[i].is_pkg
                          THEN ScanPackageFrom_until_error(self, full_name, R, 1)
                          ELSE scan_module(self, full_name),
                          package_name, R, i + 1)

\* _scan_package(package, package_name), the loop being at index i; R is the
\* set of modules whose import raises
RECURSIVE ScanPackageFrom(_, _, _, _)
ScanPackageFrom(self, package_name, R, i) ==
    LET mods == IterModules[package_name]
    IN  IF i > Len(mods) THEN self
        ELSE LET full_name == package_name \o "." \o mods[i].module_name
                 after == IF full_name \in R THEN self
                          ELSE IF mods[i].is_pkg
                          THEN ScanPackageFrom(self, full_name, R, 1)
                          ELSE scan_module(self, full_name)
             IN  ScanPackageFrom(after, package_name, R, i + 1)

scan_package(self, package_name, R) == ScanPackageFrom(self, package_name, R, 1)

\* plugin_folders = [f for f in plugins_dir.iterdir() if f.is_dir()]
PluginFolders(entries) == SelectSeq(entries, LAMBDA f : EntryInfo[f].is_dir)

\* the body of the loop over plugin_folders in _load_plugins
load_folder(self, plugin_folder, R) ==
    IF ~EntryInfo[plugin_folder].has_init THEN self
    ELSE IF plugin_folder \in R THEN self
    ELSE scan_package(self, plugin_folder, R)

\* a loop that the import error of a package ends: the folders after it are
\* never looked at
RECURSIVE LoadFolders_until_error(_, _, _, _)
LoadFolders_until_error(self, plugin_folders, R, i) ==
    IF i > Len(plugin_folders) THEN self
    ELSE IF EntryInfo[plugin_folders[i]].has_init /\ plugin_folders[i] \in R THEN self
    ELSE LoadFolders_until_error(load_folder(self, plugin_folders[i], R),
                                 plugin_folders, R, i + 1)

RECURSIVE LoadFolders(_, _, _, _)
LoadFolders(self, plugin_folders, R, i) ==
    IF i > Len(plugin_folders) THEN self
    ELSE LoadFolders(load_folder(self, plugin_folders[i], R), plugin_folders, R, i + 1)

\* a _load_plugins that never sets _loaded after the scan
load_plugins_forgetful(self, exists, entries, R) ==
    IF self.loaded THEN [self |-> self, scanned |-> FALSE]
    ELSE IF ~exists THEN [self |-> [self EXCEPT !.loaded = TRUE], scanned |-> TRUE]
    ELSE IF PluginFolders(entries) = <<>>
    THEN [self |-> [self EXCEPT !.loaded = TRUE], scanned |-> TRUE]
    ELSE [self |-> LoadFolders(self, PluginFolders(entries), R, 1), scanned |-> TRUE]

\* a _load_plugins that returns from a missing plugins directory without
\* setting _loaded
load_plugins_unmarked(self, exists, entries, R) ==
    IF self.loaded THEN [self |-> self, scanned |-> FALSE]
    ELSE IF ~exists THEN [self |-> self, scanned |-> TRUE]
    ELSE IF PluginFolders(entries) = <<>>
    THEN [self |-> [self EXCEPT !.loaded = TRUE], scanned |-> TRUE]
    ELSE [self |-> [LoadFolders(self, PluginFolders(entries), R, 1) EXCEPT !.loaded = TRUE],
          scanned |-> TRUE]

\* _load_plugins : self after the call, and whether the call went past the guard
load_plugins(self, exists, entries, R) ==
    IF self.loaded THEN [self |-> self, scanned |-> FALSE]
    ELSE IF ~exists THEN [self |-> [self EXCEPT !.loaded = TRUE], scanned |-> TRUE]
    ELSE IF PluginFolders(entries) = <<>>
    THEN [self |-> [self EXCEPT !.loaded = TRUE], scanned |-> TRUE]
    ELSE [self |-> [LoadFolders(self, PluginFolders(entries), R, 1) EXCEPT !.loaded = TRUE],
          scanned |-> TRUE]

\* d[name] in place of d.get(name) : a missing key raises
DictGetOrNone_strict(d, name) == IF name \in DictKeys(d) THEN DictGet(d, name) ELSE "KeyError"

\* dict.get(name) : the value, or None
DictGetOrNone(d, name) == IF name \in DictKeys(d) THEN DictGet(d, name) ELSE None

\* an instantiate_data_plugin without the try/except around the constructor call
instantiate_uncaught(plugin_class, kwargs) ==
    IF plugin_class = None THEN None
    ELSE IF kwargs = Classes[plugin_class].init_args
    THEN "instance of " \o plugin_class
    ELSE "TypeError"

\* plugin_class(**kwargs) raises unless kwargs names exactly the constructor's
\* arguments; the except clause turns that into None
instantiate(plugin_class, kwargs) ==
    IF plugin_class = None THEN None
    ELSE IF kwargs = Classes[plugin_class].init_args
    THEN "instance of " \o plugin_class
    ELSE None

\* key.rsplit('.', 1)[0] : a name bound in a module has no dot in it
RSplitHead(key) ==
    CHOOSE m \in ModuleNames : \E n \in DOMAIN Classes : key = m \o "." \o n

\* the list get_all_plugin_info builds from one registry
RECURSIVE InfoList(_, _)
InfoList(d, i) ==
    IF i > Len(d) THEN <<>>
    ELSE <<[key |-> d[i].k, class_name |-> d[i].v, module |-> RSplitHead(d[i].k)]>>
         \o InfoList(d, i + 1)

\* ------------------------------------------------- initial states
\* every order in which iterdir can list any of the entries
EntryOrders ==
    {s \in UNION {[1..n -> Entries] : n \in 0..Cardinality(Entries)} :
        \A i \in DOMAIN s, j \in DOMAIN s : i # j => s[i] # s[j]}

\* the sets of failing imports that Python's import order allows
RaiseSets ==
    {R \in SUBSET ModuleNames : \A p \in ImportsFirst : p[2] \in R => p[1] \in R}

NothingSeen == [queried |-> FALSE, data_keys |-> {}, vis_keys |-> {}]

DiskInit ==
    /\ plugins_dir_exists \in BOOLEAN
    /\ dir_entries \in EntryOrders
    /\ ~plugins_dir_exists => dir_entries = <<>>
    /\ raises \in RaiseSets

\* a process before its first PluginManager()
RegistryInit ==
    /\ DiskInit
    /\ instance = NoInstance
    /\ scans = 0
    /\ seen = NothingSeen
    /\ ret = [op |-> "none", args |-> <<>>, value |-> None, raised |-> None]
    /\ pc = <<>>
    /\ folder_idx = <<>>

\* no Graph or GraphBuilder call is made
GraphOff ==
    /\ heap = <<>>
    /\ graphs = <<>>
    /\ builder = GraphBuilder(TRUE)
    /\ result = [op |-> "none", ok |-> TRUE, err |-> NoError, g |-> 0]
    /\ staged = NothingStaged

GraphIdle == UNCHANGED gvars

\* ------------------------------------------------- calls, one caller
LookupNames == {"alpha.mod.JSONSource", "alpha.mod.Both", "beta.mod.SimpleVisualizer",
                "alpha.AlphaSource", "nope.Missing"}

KwargSets == {{}, {"graph_builder_class"}}

Observe(self) ==
    [queried |-> TRUE, data_keys |-> DictKeys(self.data_plugins),
     vis_keys |-> DictKeys(self.visualizer_plugins)]

\* pm = PluginManager()
Construct ==
    /\ instance' = PluginManager_init(PluginManager_new(instance))
    /\ ret' = [op |-> "PluginManager", args |-> <<>>, value |-> "self", raised |-> None]
    /\ UNCHANGED <<fsvars, scans, seen, tvars>>
    /\ GraphIdle

\* every query begins with self._load_plugins()
Loaded == load_plugins(instance, plugins_dir_exists, dir_entries, raises)

\* an exception that leaves the method shows in `raised`, and nothing is returned
Propagates(value) == value \in {"TypeError"}

LoadThen(op, args, value, raised) ==
    /\ instance.created
    /\ instance.loaded \/ scans < MaxScans
    /\ instance' = Loaded.self
    /\ scans' = IF Loaded.scanned THEN scans + 1 ELSE scans
    /\ seen' = Observe(Loaded.self)
    /\ ret' = [op |-> op, args |-> args, value |-> value, raised |-> raised]
    /\ UNCHANGED <<fsvars, tvars>>
    /\ GraphIdle

get_data_source_plugins ==
    instance.created /\ LoadThen("get_data_source_plugins", <<>>, Loaded.self.data_plugins, None)

get_visualizer_plugins ==
    instance.created /\ LoadThen("get_visualizer_plugins", <<>>, Loaded.self.visualizer_plugins, None)

get_data_plugin_class ==
    /\ instance.created
    /\ \E name \in LookupNames :
         LoadThen("get_data_plugin_class", <<name>>,
                  DictGetOrNone(Loaded.self.data_plugins, name), None)

get_visualizer_plugin_class ==
    /\ instance.created
    /\ \E name \in LookupNames :
         LoadThen("get_visualizer_plugin_class", <<name>>,
                  DictGetOrNone(Loaded.self.visualizer_plugins, name), None)

instantiate_data_plugin ==
    /\ instance.created
    /\ \E name \in LookupNames, kwargs \in KwargSets :
         LET made == instantiate(DictGetOrNone(Loaded.self.data_plugins, name), kwargs)
         IN  LoadThen("instantiate_data_plugin", <<name, kwargs>>,
                      IF Propagates(made) THEN None ELSE made,
                      IF Propagates(made) THEN made ELSE None)

get_all_plugin_info ==
    /\ instance.created
    /\ LoadThen("get_all_plugin_info", <<>>,
                [data_plugins |-> InfoList(Loaded.self.data_plugins, 1),
                 visualizer_plugins |-> InfoList(Loaded.self.visualizer_plugins, 1)], None)

RegistryNext ==
    \/ Construct
    \/ get_data_source_plugins
    \/ get_visualizer_plugins
    \/ get_data_plugin_class
    \/ get_visualizer_plugin_class
    \/ instantiate_data_plugin
    \/ get_all_plugin_info

RegistryOnlyInit == RegistryInit /\ GraphOff

SpecRegistry == RegistryOnlyInit /\ [][RegistryNext]_vars

\* ------------------------------------------------- lookups
\* the Graphs that at most MaxInputNodes add_node calls on a fresh Graph make
InputNodeLists ==
    UNION {[1..n -> {Node(id, [name |-> "A"]) : id \in NodeIds}] : n \in 0..MaxInputNodes}

LookupIds == NodeIds \cup {"n3"}

\* a process holding one Graph, before its first PluginManager()
LookupInit ==
    /\ RegistryInit
    /\ heap \in InputNodeLists
    /\ graphs = <<AddNodes(Graph(TRUE), heap, [i \in DOMAIN heap |-> i], 1)>>
    /\ builder = GraphBuilder(TRUE)
    /\ result = [op |-> "none", ok |-> TRUE, err |-> NoError, g |-> 0]
    /\ staged = NothingStaged

\* n = g.get_node(node_id)
GetNode ==
    /\ \E gi \in DOMAIN graphs, node_id \in LookupIds :
         result' = [op |-> "Graph.get_node", ok |-> TRUE, err |-> NoError, g |-> gi,
                    node_id |-> node_id, node |-> Graph_get_node(graphs[gi], node_id)]
    /\ UNCHANGED <<heap, graphs, builder, staged>>
    /\ RegistryIdle

LookupNext ==
    \/ Construct
    \/ get_data_plugin_class
    \/ get_visualizer_plugin_class
    \/ GetNode

SpecLookup == LookupInit /\ [][LookupNext]_vars

\* ------------------------------------------------- calls, several threads
Threads == 1..NThreads

\* pm = PluginManager() was run before the threads start
ThreadsInit ==
    /\ DiskInit
    /\ instance = PluginManager_init(PluginManager_new(NoInstance))
    /\ scans = 0
    /\ seen = NothingSeen
    /\ ret = [op |-> "PluginManager", args |-> <<>>, value |-> "self", raised |-> None]
    /\ pc = [t \in Threads |-> "call"]
    /\ folder_idx = [t \in Threads |-> 1]

Return(t, self) ==
    /\ pc' = [pc EXCEPT ![t] = "returned"]
    /\ seen' = Observe(self)
    /\ ret' = [op |-> "get_data_source_plugins", args |-> <<>>,
               value |-> self.data_plugins, raised |-> None]

\* lines 37-57 : the _loaded guard, the directory lookup, the folder list
EnterLoad(t) ==
    /\ pc[t] = "call"
    /\ IF instance.loaded
       THEN /\ Return(t, instance)
            /\ UNCHANGED <<instance, scans, folder_idx>>
       ELSE /\ scans' = scans + 1
            /\ IF ~plugins_dir_exists \/ PluginFolders(dir_entries) = <<>>
               THEN /\ instance' = [instance EXCEPT !.loaded = TRUE]
                    /\ Return(t, instance')
                    /\ UNCHANGED folder_idx
               ELSE /\ pc' = [pc EXCEPT ![t] = "scan"]
                    /\ folder_idx' = [folder_idx EXCEPT ![t] = 1]
                    /\ UNCHANGED <<instance, seen, ret>>
    /\ UNCHANGED fsvars
    /\ GraphIdle

\* lines 59-71 : one round of the loop over plugin_folders
ScanFolder(t) ==
    /\ pc[t] = "scan"
    /\ instance' = load_folder(instance, PluginFolders(dir_entries)[folder_idx[t]], raises)
    /\ IF folder_idx[t] = Len(PluginFolders(dir_entries))
       THEN pc' = [pc EXCEPT ![t] = "mark"]
       ELSE pc' = pc
    /\ folder_idx' = [folder_idx EXCEPT ![t] = @ + 1]
    /\ UNCHANGED <<fsvars, scans, seen, ret>>
    /\ GraphIdle

\* line 73 and the return of self._data_plugins
MarkLoaded(t) ==
    /\ pc[t] = "mark"
    /\ instance' = [instance EXCEPT !.loaded = TRUE]
    /\ Return(t, instance')
    /\ UNCHANGED <<fsvars, scans, folder_idx>>
    /\ GraphIdle

ThreadsNext == \E t \in Threads : EnterLoad(t) \/ ScanFolder(t) \/ MarkLoaded(t)

ThreadsOnlyInit == ThreadsInit /\ GraphOff

SpecThreads == ThreadsOnlyInit /\ [][ThreadsNext]_vars

\* ================================================================ claims
ValuesOf(d) == {d[i].v : i \in DOMAIN d}

\* does the error carry this id anywhere in its message
Identifies(err, id) == \E i \in DOMAIN err.msg : err.msg[i] = id

EndpointsPresent(e, nodes) ==
    e.source \in DictKeys(nodes) /\ e.target \in DictKeys(nodes)

\* C2: Graph.add_edge(e) stores e only if e.source and e.target are ids of
\* nodes of the Graph at the time of the call; otherwise it raises a
\* ValueError and the Graph's node and edge mappings are what they were.
C2_EndpointInvariant ==
    [][(result'.op = "Graph.add_edge" /\ Len(heap') = Len(heap) + 1) =>
        LET a == Len(heap')
            gi == result'.g
            present == EndpointsPresent(heap'[a], graphs[gi].nodes)
        IN  /\ result'.ok <=> present
            /\ a \in ValuesOf(graphs'[gi].edges) => present
            /\ present => /\ DictGet(graphs'[gi].edges, heap'[a].id) = a
                          /\ graphs'[gi].nodes = graphs[gi].nodes
            /\ ~present => /\ graphs' = graphs
                           /\ result'.err.type = "ValueError"]_gvars

\* a failed add_edge on a Graph that already stores an edge
C2_Witness ==
    /\ result.op = "Graph.add_edge"
    /\ ~result.ok
    /\ graphs[result.g].edges # EmptyDict
    /\ graphs[result.g].nodes # EmptyDict

StagedEdgesValid(b, h) ==
    \A a \in ValuesOf(b.edges) : EndpointsPresent(h[a], b.nodes)

\* C3: GraphBuilder.add_edge never fails; build() succeeds exactly when the
\* source and target of every staged edge are ids of staged nodes at the time
\* of build(), whatever the order of staging.
C3_DeferredValidation ==
    /\ result.op = "GraphBuilder.add_edge" => result.ok
    /\ result.op = "GraphBuilder.build" => (result.ok <=> StagedEdgesValid(builder, heap))

\* a successful build of an edge that was staged before its source node
C3_Witness ==
    /\ result.op = "GraphBuilder.build"
    /\ result.ok
    /\ \E i \in DOMAIN builder.edges, j \in DOMAIN builder.nodes :
         /\ builder.edges[i].v < builder.nodes[j].v
         /\ heap[builder.edges[i].v].source = builder.nodes[j].k

\* the staged edges with a missing endpoint, and the first of them in staging order
Offending(b, h) ==
    {i \in DOMAIN b.edges : ~EndpointsPresent(h[b.edges[i].v], b.nodes)}

FirstOffending(b, h) ==
    b.edges[CHOOSE i \in Offending(b, h) : \A j \in Offending(b, h) : i <= j].k

\* C4: when build() fails on a missing endpoint, the error it raises
\* identifies the id of the first offending edge in staging order.
C4_ErrorNamesEdge ==
    (result.op = "GraphBuilder.build" /\ ~result.ok) =>
        Identifies(result.err, FirstOffending(builder, heap))

Entities(g) == ValuesOf(g.nodes) \cup ValuesOf(g.edges)

\* C9: no Node or Edge object is shared between two Graph instances.
C9_NoSharedEntity ==
    \A g1 \in DOMAIN graphs, g2 \in DOMAIN graphs :
        g1 # g2 => Entities(graphs[g1]) \cap Entities(graphs[g2]) = {}

\* same directed flag, same node ids with equal attributes, same edge ids
\* with equal source, target and attributes
GraphEquiv(g1, g2, h) ==
    /\ g1.directed = g2.directed
    /\ DictKeys(g1.nodes) = DictKeys(g2.nodes)
    /\ DictKeys(g1.edges) = DictKeys(g2.edges)
    /\ \A key \in DictKeys(g1.nodes) :
         h[DictGet(g1.nodes, key)].attributes = h[DictGet(g2.nodes, key)].attributes
    /\ \A key \in DictKeys(g1.edges) :
         LET e1 == h[DictGet(g1.edges, key)]
             e2 == h[DictGet(g2.edges, key)]
         IN  /\ e1.source = e2.source
             /\ e1.target = e2.target
             /\ e1.attributes = e2.attributes

\* C10: build() leaves the staged nodes and edges as they were, and a build()
\* that directly follows a build() fails if that one failed and otherwise
\* returns an equivalent Graph.
C10_RebuildEquivalent ==
    [][result'.op = "GraphBuilder.build" =>
        /\ builder' = builder
        /\ heap' = heap
        /\ result.op = "GraphBuilder.build" =>
             /\ result'.ok = result.ok
             /\ result.ok => GraphEquiv(graphs'[result.g], graphs'[result'.g], heap')]_gvars

\* the second of two builds returned a Graph with the nodes and edges of the first
C10_Witness ==
    /\ result.op = "GraphBuilder.build"
    /\ result.ok
    /\ result.g = 2
    /\ graphs[2].edges # EmptyDict
    /\ graphs[1] = graphs[2]

\* C18: when every staged edge has staged nodes at both ends, build() returns
\* a new Graph with the builder's directed flag, whose node ids and edge ids
\* are exactly the staged ones and in which every node and edge carries the
\* attributes (and source and target) last staged for its id.
C18_BuildResult ==
    (/\ result.op = "GraphBuilder.build"
     /\ \A e \in DOMAIN staged.edges :
          {staged.edges[e].source, staged.edges[e].target} \subseteq DOMAIN staged.nodes) =>
        /\ result.ok
        /\ result.g = Len(graphs)
        /\ LET g == graphs[result.g]
           IN  /\ g.directed = builder.directed
               /\ DictKeys(g.nodes) = DOMAIN staged.nodes
               /\ DictKeys(g.edges) = DOMAIN staged.edges
               /\ \A id \in DOMAIN staged.nodes :
                    heap[DictGet(g.nodes, id)].attributes = staged.nodes[id].attributes
               /\ \A id \in DOMAIN staged.edges :
                    LET e == heap[DictGet(g.edges, id)]
                    IN  /\ e.source = staged.edges[id].source
                        /\ e.target = staged.edges[id].target
                        /\ e.attributes = staged.edges[id].attributes

\* C20: in every reachable state, whatever add_node and add_edge calls
\* succeeded or failed before, every edge stored in a Graph has a source and a
\* target that are ids of nodes the Graph currently stores.
C20_ReferentialIntegrity ==
    \A gi \in DOMAIN graphs :
        \A i \in DOMAIN graphs[gi].edges :
            LET e == heap[graphs[gi].edges[i].v]
            IN  \E s \in DOMAIN graphs[gi].nodes, t \in DOMAIN graphs[gi].nodes :
                    /\ e.source = heap[graphs[gi].nodes[s].v].id
                    /\ e.target = heap[graphs[gi].nodes[t].v].id

\* a node was inserted again under the id that a stored edge starts from
C20_Witness ==
    /\ result.op = "Graph.add_node"
    /\ \E gi \in DOMAIN graphs :
         /\ graphs[gi].edges # EmptyDict
         /\ LET e == heap[graphs[gi].edges[1].v]
                n == DictGet(graphs[gi].nodes, e.source)
            IN  /\ n = Len(heap)
                /\ n > graphs[gi].edges[1].v
                /\ \E a \in 1..(graphs[gi].edges[1].v - 1) :
                     heap[a].kind = "Node" /\ heap[a].id = e.source

\* the endpoints of staged edges that are ids of no staged node
MissingIds(b, h) ==
    UNION {{h[a].source, h[a].target} : a \in ValuesOf(b.edges)} \ DictKeys(b.nodes)

\* builder.add_node(id, **attributes) for every id of ids: the builder and the heap after
RECURSIVE StageAll(_, _, _, _)
StageAll(b, h, ids, attributes) ==
    IF ids = {} THEN [b |-> b, h |-> h]
    ELSE LET id == CHOOSE x \in ids : TRUE
             hh == Append(h, Node(id, attributes))
         IN  StageAll(GraphBuilder_add_node(b, Len(hh), id), hh, ids \ {id}, attributes)

\* staging the missing ids and building again yields a Graph with every staged edge
Recovers(b, h) ==
    \A attributes \in NodeProps :
        LET s == StageAll(b, h, MissingIds(b, h), attributes)
            r == build(s.b, s.h)
        IN  /\ r.err = NoError
            /\ r.g.edges = b.edges
            /\ DictKeys(r.g.nodes) = DictKeys(b.nodes) \cup MissingIds(b, h)

\* C22: a build() that fails on a missing endpoint hands no Graph to the
\* caller and leaves the staged nodes and edges exactly as they were, and once
\* the missing node ids are staged a build() on the same builder succeeds and
\* contains every staged edge.
C22_FailedBuildRecoverable ==
    /\ [][(result'.op = "GraphBuilder.build" /\ ~result'.ok) =>
            /\ result'.g = 0
            /\ graphs' = graphs
            /\ builder' = builder
            /\ heap' = heap]_vars
    /\ []((result.op = "GraphBuilder.build" /\ ~result.ok) =>
            (MissingIds(builder, heap) # {} /\ Recovers(builder, heap)))

\* a build failed with a node and two edges staged, one of the edges ending
\* at an id that is not staged
C22_Witness ==
    /\ result.op = "GraphBuilder.build"
    /\ ~result.ok
    /\ graphs = <<>>
    /\ Len(builder.edges) = 2
    /\ Len(builder.nodes) = 1
    /\ Cardinality(MissingIds(builder, heap)) = 1

\* ------------------------------------------------- registry claims
RegisteredKeys ==
    DictKeys(instance.data_plugins) \cup DictKeys(instance.visualizer_plugins)

\* the folders of the plugins directory that qualify as plugin packages
QualifyingPackages ==
    IF plugins_dir_exists
    THEN {dir_entries[i] : i \in {j \in DOMAIN dir_entries :
              EntryInfo[dir_entries[j]].is_dir /\ EntryInfo[dir_entries[j]].has_init}}
    ELSE {}

SubModules(p) ==
    IF p \in PackageNames
    THEN {p \o "." \o IterModules[p][i].module_name : i \in DOMAIN IterModules[p]}
    ELSE {}

\* a package with every module below it
RECURSIVE ModulesUnder(_)
ModulesUnder(p) == {p} \cup UNION {ModulesUnder(c) : c \in SubModules(p)}

\* the modules below p (p included) that discovery imports without an error
RECURSIVE ImportedUnder(_)
ImportedUnder(p) ==
    IF p \in raises THEN {}
    ELSE {p} \cup UNION {ImportedUnder(c) : c \in SubModules(p)}

ImportedModules == UNION {ImportedUnder(p) : p \in QualifyingPackages}

MembersOf(m) == {GetMembers[m][i] : i \in DOMAIN GetMembers[m]}

KeysUnder(p) ==
    UNION {{m \o "." \o x.name : x \in MembersOf(m)} : m \in ModulesUnder(p)}

Checkable(obj) == Classes[obj].isclass /\ Classes[obj].check = "ok"

\* C1: the directory scan runs at most once and is run by the first query;
\* once Loaded no call writes to the instance (a PluginManager() included),
\* and every later query sees the key sets the first one saw.
C1_IdempotentDiscovery ==
    /\ [](scans <= 1)
    /\ [](seen.queried => (instance.loaded /\ scans = 1))
    /\ [][instance.loaded => (instance' = instance /\ scans' = scans)]_vars
    /\ [][seen.queried => seen' = seen]_vars

\* PluginManager() was called again after a discovery that registered plugins
C1_Witness ==
    /\ ret.op = "PluginManager"
    /\ scans = 1
    /\ instance.loaded
    /\ seen.queried
    /\ seen.data_keys # {}
    /\ seen.data_keys = DictKeys(instance.data_plugins)

\* C5: a package whose import raises leaves no key in either registry, and
\* every package imported without an error registers exactly what it
\* registers when it is the only package, wherever the failing ones are listed.
C5_PackageIsolation ==
    instance.loaded =>
        \A p \in QualifyingPackages :
            IF p \in raises
            THEN RegisteredKeys \cap KeysUnder(p) = {}
            ELSE LET alone == scan_package(PluginManager_init(PluginManager_new(NoInstance)),
                                           p, raises)
                 IN  \A key \in KeysUnder(p) :
                       /\ DictGetOrNone(instance.data_plugins, key)
                            = DictGetOrNone(alone.data_plugins, key)
                       /\ DictGetOrNone(instance.visualizer_plugins, key)
                            = DictGetOrNone(alone.visualizer_plugins, key)

\* alpha is listed before beta and fails to import; beta's visualizer is registered
C5_Witness ==
    /\ instance.loaded
    /\ "alpha" \in raises
    /\ \E i \in DOMAIN dir_entries, j \in DOMAIN dir_entries :
         i < j /\ dir_entries[i] = "alpha" /\ dir_entries[j] = "beta"
    /\ DictGetOrNone(instance.visualizer_plugins, "beta.mod.SimpleVisualizer")
         = "SimpleVisualizer"
    /\ RegisteredKeys \cap KeysUnder("alpha") = {}

\* C6: of the threads that make the first query at once, one performs the
\* scan, and a thread has returned only when the registry is Loaded and no
\* thread is still populating it.
C6_GuardedDiscovery ==
    /\ scans <= 1
    /\ \A t \in Threads :
         pc[t] = "returned" =>
             /\ instance.loaded
             /\ \A u \in Threads : pc[u] \notin {"scan", "mark"}

\* C7: a concrete class that is both a DataSourcePlugin and a VisualizerPlugin
\* is, after discovery, in both registries under the same key.
C7_DualRegistration ==
    instance.loaded =>
        /\ \A m \in ImportedModules \ PackageNames :
             \A x \in MembersOf(m) :
                 (Checkable(x.obj) /\ IsDataSource(x.obj) /\ IsVisualizer(x.obj)) =>
                     /\ DictGetOrNone(instance.data_plugins, m \o "." \o x.name) = x.obj
                     /\ DictGetOrNone(instance.visualizer_plugins, m \o "." \o x.name) = x.obj
        /\ \A key \in RegisteredKeys :
             LET d == DictGetOrNone(instance.data_plugins, key)
                 v == DictGetOrNone(instance.visualizer_plugins, key)
                 obj == IF d # None THEN d ELSE v
             IN  (IsDataSource(obj) /\ IsVisualizer(obj)) => d = v

\* alpha.mod was scanned and its class Both is in both registries
C7_Witness ==
    /\ instance.loaded
    /\ DictGetOrNone(instance.data_plugins, "alpha.mod.Both") = "Both"
    /\ DictGetOrNone(instance.visualizer_plugins, "alpha.mod.Both") = "Both"

\* C8: every class declared at the top level of a module that discovery
\* imported (a package's own module, a sub-package, a sub-module) is
\* registered under <module>.<name> in the registry of each capability it has.
C8_CompleteRegistration ==
    instance.loaded =>
        \A m \in ImportedModules :
            \A x \in MembersOf(m) :
                (Checkable(x.obj) /\ Classes[x.obj].module = m) =>
                    /\ IsDataSource(x.obj) =>
                         DictGetOrNone(instance.data_plugins, m \o "." \o x.name) = x.obj
                    /\ IsVisualizer(x.obj) =>
                         DictGetOrNone(instance.visualizer_plugins, m \o "." \o x.name) = x.obj

\* ------------------------------------------------- later graph claims
\* the dictionary after d[key] = a : key holds a, every other key holds what it held
Replaced(d, dd, key, a) ==
    /\ DictKeys(dd) = DictKeys(d) \cup {key}
    /\ Len(dd) = Cardinality(DictKeys(dd))
    /\ DictGet(dd, key) = a
    /\ \A k \in DictKeys(d) \ {key} : DictGet(dd, k) = DictGet(d, k)

\* C11: Graph.add_node under an id already present replaces the stored node
\* and never fails; Graph.add_edge under an id already present replaces the
\* stored edge and fails only for a missing endpoint; staging a node or an
\* edge under an already staged id replaces the earlier one and never fails.
C11_LastWriteWins ==
    [][Len(heap') = Len(heap) + 1 =>
        LET a == Len(heap')
            obj == heap'[a]
            gi == result'.g
        IN  /\ result'.op = "Graph.add_node" =>
                 /\ result'.ok
                 /\ Replaced(graphs[gi].nodes, graphs'[gi].nodes, obj.id, a)
            /\ result'.op = "Graph.add_edge" =>
                 /\ result'.ok <=> EndpointsPresent(obj, graphs[gi].nodes)
                 /\ result'.ok => Replaced(graphs[gi].edges, graphs'[gi].edges, obj.id, a)
            /\ result'.op = "GraphBuilder.add_node" =>
                 /\ result'.ok
                 /\ Replaced(builder.nodes, builder'.nodes, obj.id, a)
            /\ result'.op = "GraphBuilder.add_edge" =>
                 /\ result'.ok
                 /\ Replaced(builder.edges, builder'.edges, obj.id, a)]_vars

\* a Graph whose node n1 was added twice holds the second Node object, and a
\* builder whose edge e1 was staged twice holds the second Edge object
C11_Witness ==
    /\ Len(heap) = 2
    /\ heap[1].id = heap[2].id
    /\ heap[1] # heap[2]
    /\ \/ /\ Len(graphs) = 1
          /\ graphs[1].nodes = <<[k |-> heap[2].id, v |-> 2]>>
       \/ builder.edges = <<[k |-> heap[2].id, v |-> 2]>>

\* ------------------------------------------------- later registry claims
Registries(self) == <<self.data_plugins, self.visualizer_plugins>>

\* what instantiate_data_plugin(name, **kwargs) has to return, given the
\* data-source registry it looked the name up in
InstanceOrNone(data_plugins, name, kwargs) ==
    IF name \in DictKeys(data_plugins)
       /\ kwargs = Classes[DictGet(data_plugins, name)].init_args
    THEN "instance of " \o DictGet(data_plugins, name)
    ELSE None

\* C12 as stated: instantiate_data_plugin never propagates an error, returns
\* an instance for a known key whose constructor succeeds and None otherwise,
\* and in every case leaves both registries unchanged.
C12_InstantiateLeavesRegistries ==
    [][ret'.op = "instantiate_data_plugin" =>
        /\ ret'.raised = None
        /\ ret'.value = InstanceOrNone(instance'.data_plugins, ret'.args[1], ret'.args[2])
        /\ Registries(instance') = Registries(instance)]_vars

\* C12 amended: instantiate_data_plugin never propagates an error, returns an
\* instance for a known key whose constructor succeeds and None otherwise;
\* on a Loaded registry it leaves both registries unchanged, and as the first
\* query it leaves in them exactly what discovery registers.
C12_InstantiateNeverRaises ==
    [][ret'.op = "instantiate_data_plugin" =>
        /\ ret'.raised = None
        /\ ret'.value = InstanceOrNone(instance'.data_plugins, ret'.args[1], ret'.args[2])
        /\ instance.loaded => Registries(instance') = Registries(instance)
        /\ ~instance.loaded =>
             instance' = load_plugins(instance, plugins_dir_exists, dir_entries, raises).self]_vars

\* JSONSource is registered, its constructor was called without its argument,
\* and the call returned None
C12_Witness ==
    /\ ret.op = "instantiate_data_plugin"
    /\ ret.args = <<"alpha.mod.JSONSource", {}>>
    /\ "alpha.mod.JSONSource" \in DictKeys(instance.data_plugins)
    /\ ret.value = None
    /\ ret.raised = None

\* a lookup in one registry: no error leaves the call, a registered key yields
\* its type and any other key yields None
LookupAnswers(registry) ==
    /\ ret'.raised = None
    /\ \A i \in DOMAIN registry : registry[i].k = ret'.args[1] => ret'.value = registry[i].v
    /\ ret'.args[1] \notin DictKeys(registry) => ret'.value = None

\* get_node on a Graph: the Node stored under the id, None for any other id,
\* and the Graph is what it was
GetNodeAnswers ==
    result'.op = "Graph.get_node" =>
        LET nodes == graphs[result'.g].nodes
        IN  /\ \A i \in DOMAIN nodes : nodes[i].k = result'.node_id => result'.node = nodes[i].v
            /\ result'.node_id \notin DictKeys(nodes) => result'.node = NullAddr
            /\ result'.node # NullAddr => heap[result'.node].id = result'.node_id
            /\ graphs' = graphs /\ heap' = heap

\* C13 as stated: get_data_plugin_class / get_visualizer_plugin_class return
\* the registered type for a key of their registry and None for any other
\* key, and a miss never raises and never adds an entry, in every registry
\* state including before discovery has run; Graph.get_node returns None for
\* an id that is not in the Graph.
C13_MissAddsNothing ==
    [][/\ ret'.op = "get_data_plugin_class" =>
            /\ LookupAnswers(instance'.data_plugins)
            /\ ret'.value = None => Registries(instance') = Registries(instance)
       /\ ret'.op = "get_visualizer_plugin_class" =>
            /\ LookupAnswers(instance'.visualizer_plugins)
            /\ ret'.value = None => Registries(instance') = Registries(instance)
       /\ GetNodeAnswers]_vars

\* C13 amended: the two lookups return the registered type for a key of their
\* registry and None for any other key, never raise and add no entry on a
\* Loaded registry; as the first query they run discovery first, and the key
\* is looked up in the registry discovery leaves; Graph.get_node returns
\* None for an id that is not in the Graph.
C13_LookupMiss ==
    [][/\ ret'.op = "get_data_plugin_class" =>
            /\ LookupAnswers(instance'.data_plugins)
            /\ instance.loaded => Registries(instance') = Registries(instance)
       /\ ret'.op = "get_visualizer_plugin_class" =>
            /\ LookupAnswers(instance'.visualizer_plugins)
            /\ instance.loaded => Registries(instance') = Registries(instance)
       /\ GetNodeAnswers]_vars

\* a key of the visualizer registry only was missed in the data-source
\* registry, and get_node missed n2 on a Graph that holds n1
C13_Witness ==
    /\ ret.op = "get_data_plugin_class"
    /\ ret.args = <<"beta.mod.SimpleVisualizer">>
    /\ "beta.mod.SimpleVisualizer" \in DictKeys(instance.visualizer_plugins)
    /\ ret.value = None
    /\ result.op = "Graph.get_node"
    /\ result.node_id = "n2"
    /\ DictKeys(graphs[result.g].nodes) = {"n1"}
    /\ result.node = NullAddr

QueryOps == {"get_data_source_plugins", "get_visualizer_plugins", "get_data_plugin_class",
             "get_visualizer_plugin_class", "instantiate_data_plugin", "get_all_plugin_info"}

\* C14: when the plugins directory does not exist, the first query returns
\* without an error, the registry is Loaded with both registries empty, and
\* no later query goes looking for the directory again.
C14_MissingPluginRoot ==
    (~plugins_dir_exists /\ ret.op \in QueryOps) =>
        /\ ret.raised = None
        /\ instance.loaded
        /\ instance.data_plugins = EmptyDict
        /\ instance.visualizer_plugins = EmptyDict
        /\ scans = 1

\* get_all_plugin_info answered with two empty lists, no directory on the disk
C14_Witness ==
    /\ ~plugins_dir_exists
    /\ ret.op = "get_all_plugin_info"
    /\ ret.value = [data_plugins |-> <<>>, visualizer_plugins |-> <<>>]
    /\ instance.loaded
    /\ scans = 1

Concrete(c) == Classes[c].isclass /\ ~Classes[c].isabstract

\* C15: in every reachable registry state every value of the data-source
\* registry is a concrete type that satisfies the DataSource capability and is
\* not the DataSource contract itself, every value of the visualizer registry
\* is a concrete type that satisfies the Visualizer capability and is not the
\* Visualizer contract itself, and a type matching neither contract is in
\* neither registry.
C15_RegistryMembership ==
    /\ \A c \in ValuesOf(instance.data_plugins) :
         Concrete(c) /\ "DataSourcePlugin" \in Classes[c].mro /\ c # "DataSourcePlugin"
    /\ \A c \in ValuesOf(instance.visualizer_plugins) :
         Concrete(c) /\ "VisualizerPlugin" \in Classes[c].mro /\ c # "VisualizerPlugin"
    /\ \A c \in DOMAIN Classes :
         Classes[c].mro \cap {"DataSourcePlugin", "VisualizerPlugin"} = {} =>
             c \notin ValuesOf(instance.data_plugins) \cup ValuesOf(instance.visualizer_plugins)

\* alpha.mod was scanned: its concrete types are registered, while the
\* contracts, AbstractSource, IntList and json that it also binds are not
C15_Witness ==
    /\ instance.loaded
    /\ {"JSONSource", "Both"} \subseteq ValuesOf(instance.data_plugins)
    /\ "alpha.mod.Both" \in DictKeys(instance.visualizer_plugins)
    /\ "SimpleVisualizer" \in ValuesOf(instance.visualizer_plugins)
    /\ {"AbstractSource", "DataSourcePlugin", "IntList"} \cap ValuesOf(instance.data_plugins) = {}

\* the keys a module's members would be registered under
KeysOf(m) == {m \o "." \o x.name : x \in MembersOf(m)}

Conforms(c, contract) ==
    Checkable(c) /\ Concrete(c) /\ contract \in Classes[c].mro /\ c # contract

\* C16: inside a package that was imported, a sub-module or sub-package whose
\* import raises leaves no key in either registry, and every other module
\* below the package, at any depth and on either side of the failing one in
\* the listing, has each of its conforming types registered under its key.
C16_ModuleIsolation ==
    instance.loaded =>
        \A p \in QualifyingPackages \ raises :
            \A m \in ModulesUnder(p) \ {p} :
                IF m \notin ImportedUnder(p)
                THEN RegisteredKeys \cap KeysOf(m) = {}
                ELSE m \notin PackageNames =>
                       \A x \in MembersOf(m) :
                          /\ Conforms(x.obj, "DataSourcePlugin") =>
                               \E i \in DOMAIN instance.data_plugins :
                                  instance.data_plugins[i] = [k |-> m \o "." \o x.name, v |-> x.obj]
                          /\ Conforms(x.obj, "VisualizerPlugin") =>
                               \E i \in DOMAIN instance.visualizer_plugins :
                                  instance.visualizer_plugins[i]
                                     = [k |-> m \o "." \o x.name, v |-> x.obj]

\* alpha was imported, alpha.mod (listed first) raised, and the visualizer of
\* alpha.sub.leaf, two levels down and listed after it, is registered
C16_Witness ==
    /\ instance.loaded
    /\ "alpha" \in QualifyingPackages \ raises
    /\ "alpha.mod" \in raises
    /\ RegisteredKeys \cap KeysOf("alpha.mod") = {}
    /\ "alpha.sub.leaf.LeafVis" \in DictKeys(instance.visualizer_plugins)

\* ------------------------------------------------- JSONSource claims
NodeIdsOf(data) == {JsonGet(data.nodes[i], "id") : i \in DOMAIN data.nodes}

\* a document of the exchange shape: every node entry has an id, every edge
\* entry an id, a source and a target, and every endpoint is a node of it
ExchangeShape(data) ==
    /\ \A i \in DOMAIN data.nodes : "id" \in DOMAIN data.nodes[i]
    /\ \A i \in DOMAIN data.edges :
         /\ {"id", "source", "target"} \subseteq DOMAIN data.edges[i]
         /\ {data.edges[i].source, data.edges[i].target} \subseteq NodeIdsOf(data)

\* the entry that decides an id: no later entry of the list carries the same id
LastFor(entries, i) == \A j \in DOMAIN entries : j > i => JsonGet(entries[j], "id") # entries[i].id

Copied(entry, reserved, attributes) ==
    \A k \in DOMAIN entry \ reserved : k \in DOMAIN attributes /\ attributes[k] = entry[k]

\* C17: building a Graph from a document of the exchange shape puts every key
\* of a node entry other than 'id', with its value, into that node's
\* attributes, and every key of an edge entry other than 'id', 'source' and
\* 'target' into that edge's attributes, whatever the key is called.
C17_AttributeCopy ==
    (result.op = "JSONSource._build_from_dict" /\ ExchangeShape(result.data)) =>
        /\ result.ok
        /\ LET g == graphs[result.g]
               data == result.data
           IN  /\ \A i \in DOMAIN data.nodes :
                    LastFor(data.nodes, i) =>
                        Copied(data.nodes[i], {"id"},
                               heap[DictGet(g.nodes, data.nodes[i].id)].attributes)
               /\ \A i \in DOMAIN data.edges :
                    LastFor(data.edges, i) =>
                        Copied(data.edges[i], {"id", "source", "target"},
                               heap[DictGet(g.edges, data.edges[i].id)].attributes)

\* C19: whatever packages, sub-modules and type checks fail during discovery,
\* every query returns without an error with the registry Loaded, and no
\* call, a PluginManager() included, takes a Loaded registry out of Loaded.
C19_LoadedReachedAndTerminal ==
    /\ [](ret.op \in QueryOps => (instance.loaded /\ ret.raised = None))
    /\ [][instance.loaded => instance'.loaded]_vars

\* beta and alpha.sub failed to import, alpha.mod was scanned past the type
\* check that raises on IntList, and a PluginManager() came after the query
C19_Witness ==
    /\ {"beta", "alpha.sub"} \subseteq raises
    /\ {"alpha", "beta"} \subseteq QualifyingPackages
    /\ "alpha.mod.JSONSource" \in DictKeys(instance.data_plugins)
    /\ seen.queried
    /\ ret.op = "PluginManager"
    /\ instance.loaded

\* the module a registry key names
KeyModule(entry) == RSplitHead(entry.k)

OneKeyPerType(registry) ==
    /\ \A i \in DOMAIN registry : KeyModule(registry[i]) = Classes[registry[i].v].module
    /\ \A i \in DOMAIN registry, j \in DOMAIN registry :
         registry[i].v = registry[j].v => i = j

\* C21: a type is registered only under the key of the module that declares
\* it, never under the name of a module that merely imports it, so no type
\* appears under two keys of the same registry.
C21_OneKeyPerDeclaredType ==
    /\ OneKeyPerType(instance.data_plugins)
    /\ OneKeyPerType(instance.visualizer_plugins)

====
